---- MODULE Spec2Model ----
(***************************************************************************)
(* gosince: the version database of package versiondb (the fetch/cache     *)
(* layer, the line grammar parser, the tokenizer and the query surface).   *)
(* Strings are TLA+ strings; a rune is a string of length one.             *)
(***************************************************************************)
EXTENDS Integers, Sequences, FiniteSets, TLC

VARIABLES
    cache,          \* local cache directory: file path -> bytes, or NoFile
    remote,         \* remote source: URL -> body / NetFail
    requests,       \* URLs downloaded so far, in order (the remote's log)
    pc,             \* position of LoadDatas/load
    minorVersion,   \* load's loop variable; 0 stands for the go1 pass
    rest,           \* lines of the current file still to be scanned
    data,           \* VersionDatas.data : pkg -> (lowercase symbol -> [2]string)
    index,          \* VersionDatas.index: key -> sequence of [3]string
    err,            \* the error load returned, or the panic value
    probed,         \* fileEnd arguments of the read calls, in order
    lastRead,       \* arguments and results of the last read call
    lastLine,       \* the last line handed to the line parser, with its version
    queryRes,       \* result of the last Since / Search call
    input,          \* tokenizer run: the description string
    splitRes,       \* tokenizer run: what smartSplit produced
    prod,           \* tokenizer run: the sendChar goroutine
    cons            \* tokenizer run: the goroutine that called smartSplit

vars == <<cache, remote, requests, pc, minorVersion, rest, data, index, err,
          probed, lastRead, lastLine, queryRes, input, splitRes, prod, cons>>

loadVars == <<cache, remote, requests, pc, minorVersion, rest, data, index, err,
              probed, lastRead, lastLine, queryRes>>

splitVars == <<input, splitRes>>

chanVars == <<prod, cons>>

(***************************************************************************)
(* Bounds of the model.                                                    *)
(***************************************************************************)
MaxVersion == 2     \* load probes go1 .. go1.MaxVersion and one more
MaxFeed == 4        \* lines fed to the parser in the open-file specification
MaxLen == 4         \* length of the tokenizer inputs
MaxDesc == 5        \* length of the generated part of a one-line file
MaxChan == 3        \* length of the inputs of the two-goroutine tokenizer

(***************************************************************************)
(* Error values (split.go and the versiondb file).                         *)
(***************************************************************************)
errParsingClosing == "parsing failure : wait closing separator"
errParsingString == "parsing failure : unended string"
errParsingThirdPart == "parsing failure : unhandled third part in definition"
errParsingUnexpectedClosing == "parsing failure : unexpected closing separator"
errParsingWrongClosing == "parsing failure : wait another closing separator"

errParsingComma == "parsing failure : no comma separator"
errParsingMethod == "parsing failure : empty method"
errParsingMethodName == "parsing failure : empty method name"
errParsingName == "parsing failure : empty name"
errParsingReceiver == "parsing failure : empty receiver"
errParsingReceiverName == "parsing failure : empty receiver name"
errParsingStart == "parsing failure : wrong start"
errParsingSubName == "parsing failure : empty field or method name"
errParsingType == "parsing failure : unknown definition type"
errParsingUncomplete == "parsing failure : not enough element in definition"
errUnexistingVersion == "can not retrieve go1 information"
ErrUnknownPackage == "package not found"
ErrUnknownSymbol == "symbol not found"

go1Dot == "go1."

\* Failures of the environment (net/http, os) and of the Go runtime.
errDownload == "http.Get failure"
errWriteFile == "os.WriteFile failure"
errUrl == "url.JoinPath failure"
errSliceBounds == "runtime error: slice bounds out of range"

(***************************************************************************)
(* Package strings.                                                        *)
(***************************************************************************)
charAt(s, i) == SubSeq(s, i, i)

\* s[i:] and s[:i] with 0-based Go offsets
sliceFrom(s, i) == SubSeq(s, i + 1, Len(s))
sliceTo(s, i) == SubSeq(s, 1, i)

RECURSIVE indexFrom(_, _, _)
indexFrom(s, c, i) ==
    IF i > Len(s) THEN -1
    ELSE IF charAt(s, i) = c THEN i - 1
    ELSE indexFrom(s, c, i + 1)

\* strings.IndexByte: 0-based offset of the first c in s, -1 if none
IndexByte(s, c) == indexFrom(s, c, 1)

RECURSIVE lastIndexFrom(_, _, _)
lastIndexFrom(s, c, i) ==
    IF i < 1 THEN -1
    ELSE IF charAt(s, i) = c THEN i - 1
    ELSE lastIndexFrom(s, c, i - 1)

\* strings.LastIndexByte
LastIndexByte(s, c) == lastIndexFrom(s, c, Len(s))

upperLetters == "ABCDEFGHIJKLMNOPQRSTUVWXYZ"
lowerLetters == "abcdefghijklmnopqrstuvwxyz"

lowerRune(c) ==
    LET i == IndexByte(upperLetters, c)
    IN  IF i = -1 THEN c ELSE charAt(lowerLetters, i + 1)

RECURSIVE ToLower(_)
ToLower(s) ==
    IF Len(s) = 0 THEN ""
    ELSE lowerRune(charAt(s, 1)) \o ToLower(sliceFrom(s, 1))

isSpace(c) == c \in {" ", "\t", "\n", "\r", "\f"}

RECURSIVE trimLeft(_)
trimLeft(s) ==
    IF Len(s) > 0 /\ isSpace(charAt(s, 1)) THEN trimLeft(sliceFrom(s, 1)) ELSE s

RECURSIVE trimRight(_)
trimRight(s) ==
    IF Len(s) > 0 /\ isSpace(charAt(s, Len(s)))
    THEN trimRight(sliceTo(s, Len(s) - 1)) ELSE s

TrimSpace(s) == trimRight(trimLeft(s))

HasPrefix(s, p) == Len(s) >= Len(p) /\ sliceTo(s, Len(p)) = p

\* strconv.Itoa
Itoa(n) == ToString(n)

(***************************************************************************)
(* split.go: the tokenizer.  The consumer reads the runes of the line in   *)
(* order from the channel; i is the position of the next rune to receive   *)
(* and i > Len(line) is the closed channel.  A result with err # "" is a   *)
(* panic with that value.                                                  *)
(***************************************************************************)
stringNode(s) == [s |-> s]
listNode(l) == [l |-> l]

cast(n) == IF "s" \in DOMAIN n THEN <<n.s, <<>>>> ELSE <<"", n.l>>

appendBuffer(splitted, buffer) ==
    IF Len(buffer) # 0 THEN <<Append(splitted, stringNode(buffer)), "">>
    ELSE <<splitted, buffer>>

closerOf(c) == CASE c = "(" -> ")" [] c = "[" -> "]" [] c = "{" -> "}"

panicWith(e, i) == [err |-> e, node |-> stringNode(""), pos |-> i]

\* consumeString without its backslash case
RECURSIVE consumeStringNoEscape(_, _, _, _)
consumeStringNoEscape(line, i, delim, buffer) ==
    IF i > Len(line) THEN panicWith(errParsingString, i)
    ELSE IF charAt(line, i) = delim
    THEN [err |-> "", node |-> stringNode(buffer), pos |-> i + 1]
    ELSE consumeStringNoEscape(line, i + 1, delim, buffer \o charAt(line, i))

RECURSIVE consumeString(_, _, _, _)
consumeString(line, i, delim, buffer) ==
    IF i > Len(line) THEN panicWith(errParsingString, i)
    ELSE IF charAt(line, i) = delim
    THEN [err |-> "", node |-> stringNode(buffer), pos |-> i + 1]
    ELSE IF charAt(line, i) = "\\"
    THEN IF i + 1 <= Len(line)
         THEN consumeString(line, i + 2, delim, buffer \o SubSeq(line, i, i + 1))
         ELSE consumeString(line, i + 1, delim, buffer)
    ELSE consumeString(line, i + 1, delim, buffer \o charAt(line, i))

\* The three loops of split.go.  xxxNode is the loop going on after a nested
\* consumeString / splitSub call returned r (or panicked).
RECURSIVE splitSub(_, _, _, _, _)
RECURSIVE splitSubNode(_, _, _, _)
splitSubNode(line, delim, flushed, r) ==
    IF r.err # "" THEN r
    ELSE splitSub(line, r.pos, delim, flushed[2], Append(flushed[1], r.node))

splitSub(line, i, delim, buffer, splitted) ==
    IF i > Len(line) THEN panicWith(errParsingClosing, i)
    ELSE IF charAt(line, i) = delim
    THEN [err |-> "", node |-> listNode(appendBuffer(splitted, buffer)[1]),
          pos |-> i + 1]
    ELSE IF charAt(line, i) \in {"\"", "'"}
    THEN splitSubNode(line, delim, appendBuffer(splitted, buffer),
                      consumeString(line, i + 1, charAt(line, i), ""))
    ELSE IF charAt(line, i) \in {"(", "[", "{"}
    THEN splitSubNode(line, delim, appendBuffer(splitted, buffer),
                      splitSub(line, i + 1, closerOf(charAt(line, i)), "", <<>>))
    ELSE IF charAt(line, i) \in {")", "]", "}"}
    THEN panicWith(errParsingWrongClosing, i)
    ELSE IF charAt(line, i) \in {",", " "}
    THEN splitSub(line, i + 1, delim, "", appendBuffer(splitted, buffer)[1])
    ELSE splitSub(line, i + 1, delim, buffer \o charAt(line, i), splitted)

nodesPanic(r) == [err |-> r.err, nodes |-> <<>>, pos |-> r.pos]

RECURSIVE splitSecond(_, _, _, _)
RECURSIVE splitSecondNode(_, _, _)
splitSecondNode(line, flushed, r) ==
    IF r.err # "" THEN nodesPanic(r)
    ELSE splitSecond(line, r.pos, flushed[2], Append(flushed[1], r.node))

splitSecond(line, i, buffer, splitted) ==
    IF i > Len(line)
    THEN [err |-> "", nodes |-> appendBuffer(splitted, buffer)[1], pos |-> i]
    ELSE IF charAt(line, i) \in {"\"", "'"}
    THEN splitSecondNode(line, appendBuffer(splitted, buffer),
                         consumeString(line, i + 1, charAt(line, i), ""))
    ELSE IF charAt(line, i) \in {"(", "[", "{"}
    THEN splitSecondNode(line, appendBuffer(splitted, buffer),
                         splitSub(line, i + 1, closerOf(charAt(line, i)), "", <<>>))
    ELSE IF charAt(line, i) \in {")", "]", "}"}
    THEN nodesPanic(panicWith(errParsingWrongClosing, i))
    ELSE IF charAt(line, i) = ","
    THEN nodesPanic(panicWith(errParsingThirdPart, i))
    ELSE IF charAt(line, i) = " "
    THEN splitSecond(line, i + 1, "", appendBuffer(splitted, buffer)[1])
    ELSE splitSecond(line, i + 1, buffer \o charAt(line, i), splitted)

\* smartSplit's `case ',': break` leaves the switch, not the for loop: the
\* comma is dropped and the loop goes on with the buffer as it was.
\* [loop, pos, buffer, splitted]: loop is whether the for loop goes on.
onTopLevelComma(i, buffer, splitted) ==
    [loop |-> TRUE, pos |-> i + 1, buffer |-> buffer, splitted |-> splitted]

topPanic(r) == [err |-> r.err, buffer |-> "", splitted |-> <<>>, pos |-> r.pos]

RECURSIVE smartSplitLoop(_, _, _, _)
RECURSIVE smartSplitNode(_, _, _)
RECURSIVE smartSplitComma(_, _)
smartSplitNode(line, flushed, r) ==
    IF r.err # "" THEN topPanic(r)
    ELSE smartSplitLoop(line, r.pos, flushed[2], Append(flushed[1], r.node))

smartSplitComma(line, c) ==
    IF c.loop THEN smartSplitLoop(line, c.pos, c.buffer, c.splitted)
    ELSE [err |-> "", buffer |-> c.buffer, splitted |-> c.splitted, pos |-> c.pos]

smartSplitLoop(line, i, buffer, splitted) ==
    IF i > Len(line)
    THEN [err |-> "", buffer |-> buffer, splitted |-> splitted, pos |-> i]
    ELSE IF charAt(line, i) \in {"\"", "'"}
    THEN smartSplitNode(line, appendBuffer(splitted, buffer),
                        consumeString(line, i + 1, charAt(line, i), ""))
    ELSE IF charAt(line, i) \in {"(", "[", "{"}
    THEN smartSplitNode(line, appendBuffer(splitted, buffer),
                        splitSub(line, i + 1, closerOf(charAt(line, i)), "", <<>>))
    ELSE IF charAt(line, i) \in {")", "]", "}"}
    THEN topPanic(panicWith(errParsingUnexpectedClosing, i))
    ELSE IF charAt(line, i) = ","
    THEN smartSplitComma(line, onTopLevelComma(i, buffer, splitted))
    ELSE IF charAt(line, i) = " "
    THEN smartSplitLoop(line, i + 1, "", appendBuffer(splitted, buffer)[1])
    ELSE smartSplitLoop(line, i + 1, buffer \o charAt(line, i), splitted)

\* The end of smartSplit: the last flush of the first loop, then splitSecond
\* on what is left of the channel.
splitParts(splitted, snd) ==
    IF snd.err # "" THEN [err |-> snd.err, first |-> <<>>, second |-> <<>>]
    ELSE [err |-> "", first |-> splitted, second |-> snd.nodes]

smartSplitEnd(line, top) ==
    IF top.err # "" THEN [err |-> top.err, first |-> <<>>, second |-> <<>>]
    ELSE splitParts(appendBuffer(top.splitted, top.buffer)[1],
                    splitSecond(line, top.pos, "", <<>>))

\* smartSplit returns [err, first, second]; on a panic no list is returned.
smartSplit(line) == smartSplitEnd(line, smartSplitLoop(line, 1, "", <<>>))

(***************************************************************************)
(* The versiondb file: VersionDatas and dataLoader.  A db is the pair of   *)
(* maps [data, index]; a version tag and a missing [2]string / [3]string   *)
(* component are strings, "" being Go's zero value.                        *)
(***************************************************************************)
mapPut(m, k, v) == [x \in (DOMAIN m) \cup {k} |-> IF x = k THEN v ELSE m[x]]

emptyMap == [x \in {} |-> ""]

emptyDb == [data |-> emptyMap, index |-> emptyMap]

\* vd.index[key]: a missing key reads as the nil slice
indexOf(idx, key) == IF key \in DOMAIN idx THEN idx[key] ELSE <<>>

firstMatch(entries, entry) ==
    LET hits == {i \in 1..Len(entries) : entries[i][1] = entry}
    IN  IF hits = {} THEN 0 ELSE CHOOSE i \in hits : \A j \in hits : i <= j

\* addIndexEntry putting a new entry at the head of the list
addIndexEntryAtHead(idx, key, entry, version, deprecated) ==
    IF deprecated
    THEN IF firstMatch(indexOf(idx, key), entry) = 0 THEN idx
         ELSE [idx EXCEPT ![key][firstMatch(indexOf(idx, key), entry)][3] = version]
    ELSE mapPut(idx, key, <<<<entry, version, "">>>> \o indexOf(idx, key))

addIndexEntry(idx, key, entry, version, deprecated) ==
    IF deprecated
    THEN LET entries == indexOf(idx, key)
             i == firstMatch(entries, entry)
         IN  IF i = 0 THEN idx
             ELSE [idx EXCEPT ![key] = [entries EXCEPT ![i] = <<entries[i][1], entries[i][2], version>>]]
    ELSE mapPut(idx, key, Append(indexOf(idx, key), <<entry, version, "">>))

addIndexPackageEntry(idx, pkg, version) ==
    LET indexSlash == LastIndexByte(pkg, "/")
    IN  addIndexEntry(idx, sliceFrom(pkg, indexSlash + 1), pkg, version, FALSE)

addIndexSymbolEntry(idx, pkg, symbol, version, deprecated) ==
    LET entry == pkg \o " " \o symbol
        indexDot == LastIndexByte(symbol, ".")
    IN  addIndexEntry(idx, ToLower(sliceFrom(symbol, indexDot + 1)), entry,
                      version, deprecated)

\* register without its "no override" test
registerOverriding(db, pkg, symbol, version, deprecated) ==
    [data |-> [db.data EXCEPT ![pkg] =
                  mapPut(db.data[pkg], ToLower(symbol),
                         IF deprecated THEN <<"", version>> ELSE <<version, "">>)],
     index |-> addIndexSymbolEntry(db.index, pkg, symbol, version, deprecated)]

\* register whose deprecation branch stores the version in both fields
registerDeprecatedBoth(db, pkg, symbol, version, deprecated) ==
    IF deprecated
    THEN [data |-> [db.data EXCEPT ![pkg] =
                       mapPut(db.data[pkg], ToLower(symbol), <<version, version>>)],
          index |-> addIndexSymbolEntry(db.index, pkg, symbol, version, deprecated)]
    ELSE IF ToLower(symbol) \in DOMAIN db.data[pkg] THEN db
    ELSE [data |-> [db.data EXCEPT ![pkg] =
                       mapPut(db.data[pkg], ToLower(symbol), <<version, "">>)],
          index |-> addIndexSymbolEntry(db.index, pkg, symbol, version, deprecated)]

\* register works on pkgSymbols, the map stored at dl.data[pkg]
register(db, pkg, symbol, version, deprecated) ==
    LET symbolLower == ToLower(symbol)
        pkgSymbols == db.data[pkg]
    IN  IF deprecated
        THEN LET symbolData == IF symbolLower \in DOMAIN pkgSymbols
                               THEN pkgSymbols[symbolLower] ELSE <<"", "">>
             IN  [data |-> [db.data EXCEPT ![pkg] =
                               mapPut(pkgSymbols, symbolLower, <<symbolData[1], version>>)],
                  index |-> addIndexSymbolEntry(db.index, pkg, symbol, version, deprecated)]
        ELSE IF symbolLower \in DOMAIN pkgSymbols
        THEN db
        ELSE [data |-> [db.data EXCEPT ![pkg] =
                           mapPut(pkgSymbols, symbolLower, <<version, "">>)],
              index |-> addIndexSymbolEntry(db.index, pkg, symbol, version, deprecated)]

\* The symbol a tokenized description names: [err, symbol].
symbolOf(firstPart, secondPart) ==
    LET symbolType == cast(firstPart[1])[1] IN
    IF symbolType \in {"const", "func", "var"}
    THEN LET symbol == cast(firstPart[2])[1] IN
         IF symbol = "" THEN [err |-> errParsingName, symbol |-> ""]
         ELSE [err |-> "", symbol |-> symbol]
    ELSE IF symbolType = "method"
    THEN IF Len(firstPart) < 3 THEN [err |-> errParsingMethod, symbol |-> ""]
         ELSE LET receiver == cast(firstPart[2])[2] IN
              IF Len(receiver) = 0 THEN [err |-> errParsingReceiver, symbol |-> ""]
              ELSE LET typeName0 == cast(receiver[1])[1] IN
                   IF typeName0 = "" THEN [err |-> errParsingReceiverName, symbol |-> ""]
                   ELSE LET typeName == IF charAt(typeName0, 1) = "*"
                                        THEN sliceFrom(typeName0, 1) ELSE typeName0
                            methodName == cast(firstPart[3])[1]
                        IN  IF methodName = ""
                            THEN [err |-> errParsingMethodName, symbol |-> ""]
                            ELSE [err |-> "", symbol |-> typeName \o "." \o methodName]
    ELSE IF symbolType = "type"
    THEN LET symbol == cast(firstPart[2])[1] IN
         IF symbol = "" THEN [err |-> errParsingName, symbol |-> ""]
         ELSE IF Len(secondPart) = 0 THEN [err |-> "", symbol |-> symbol]
         ELSE LET subName == cast(secondPart[1])[1] IN
              IF subName = "" THEN [err |-> errParsingSubName, symbol |-> ""]
              ELSE [err |-> "", symbol |-> symbol \o "." \o subName]
    ELSE [err |-> errParsingType, symbol |-> ""]

\* First sight of a package: its own record under "" and its index entry.
withPackage(db, pkg, version) ==
    IF pkg \in DOMAIN db.data THEN db
    ELSE [data |-> mapPut(db.data, pkg, mapPut(emptyMap, "", <<version, "">>)),
          index |-> addIndexPackageEntry(db.index, pkg, version)]

lineResult(db, e, p) == [db |-> db, err |-> e, panic |-> p]

\* parseVersionData, one iteration of the scan loop, in the order of the
\* code: the symbol named by the description, then register.
parseSymbol(db, version, pkg, sym, deprecated) ==
    IF sym.err # "" THEN lineResult(db, sym.err, FALSE)
    ELSE lineResult(register(db, pkg, sym.symbol, version, deprecated), "", FALSE)

\* after smartSplit returned parts (a panic of smartSplit is not recovered)
parseParts(db, version, pkg, parts, deprecated) ==
    IF parts.err # "" THEN lineResult(db, parts.err, TRUE)
    ELSE IF Len(parts.first) < 2 THEN lineResult(db, errParsingUncomplete, FALSE)
    ELSE parseSymbol(db, version, pkg, symbolOf(parts.first, parts.second), deprecated)

\* db is the database with the package seen; lineWithoutPrefix[indexComma+2:]
\* is a slice expression that panics beyond the end of the string
parseDescription(db, version, pkg, lineWithoutPrefix, indexComma, deprecated) ==
    IF indexComma + 2 > Len(lineWithoutPrefix)
    THEN lineResult(db, errSliceBounds, TRUE)
    ELSE parseParts(db, version, pkg,
                    smartSplit(sliceFrom(lineWithoutPrefix, indexComma + 2)),
                    deprecated)

parsePackage(db, version, lineWithoutPrefix, indexComma, deprecated) ==
    IF indexComma = -1 THEN lineResult(db, errParsingComma, FALSE)
    ELSE parseDescription(withPackage(db, sliceTo(lineWithoutPrefix, indexComma), version),
                          version, sliceTo(lineWithoutPrefix, indexComma),
                          lineWithoutPrefix, indexComma, deprecated)

parseDefinition(db, version, trimmedLine, deprecated) ==
    IF ~HasPrefix(trimmedLine, "pkg ") THEN lineResult(db, errParsingStart, FALSE)
    ELSE parsePackage(db, version, sliceFrom(trimmedLine, 4),
                      IndexByte(sliceFrom(trimmedLine, 4), ","), deprecated)

parseTrimmed(db, version, trimmedLine) ==
    IF trimmedLine = "" THEN lineResult(db, "", FALSE)
    ELSE IF Len(trimmedLine) - 12 < 0 THEN lineResult(db, errSliceBounds, TRUE)
    ELSE IF sliceFrom(trimmedLine, Len(trimmedLine) - 12) = "//deprecated"
    THEN parseDefinition(db, version, sliceTo(trimmedLine, Len(trimmedLine) - 12), TRUE)
    ELSE parseDefinition(db, version, trimmedLine, FALSE)

cutComment(line, indexSharp) ==
    IF indexSharp # -1 THEN sliceTo(line, indexSharp) ELSE line

\* One iteration of parseVersionData's scan loop on one scanned line:
\* [db, err, panic]; err = "" is `continue` or the end of the loop body.
parseLine(db, version, line) ==
    IF IndexByte(line, "#") = 0 THEN lineResult(db, "", FALSE)
    ELSE parseTrimmed(db, version, TrimSpace(cutComment(line, IndexByte(line, "#"))))

\* bufio.Scanner with ScanLines: the lines of the bytes, without their
\* end-of-line marker; a final empty line is not a line.
dropCR(s) ==
    IF Len(s) > 0 /\ charAt(s, Len(s)) = "\r" THEN sliceTo(s, Len(s) - 1) ELSE s

RECURSIVE scanLines(_)
scanLines(bytes) ==
    IF Len(bytes) = 0 THEN <<>>
    ELSE LET nl == IndexByte(bytes, "\n") IN
         IF nl = -1 THEN <<dropCR(bytes)>>
         ELSE <<dropCR(sliceTo(bytes, nl))>> \o scanLines(sliceFrom(bytes, nl + 1))

versionTag(n) == IF n = 0 THEN "go1" ELSE go1Dot \o Itoa(n)

fileEnd(n) == IF n = 0 THEN "txt" ELSE Itoa(n) \o ".txt"

\* load's loop stepping over a version
skipMinorVersion(n) == n + 2

\* minorVersion++ of load's loop
nextMinorVersion(n) == n + 1

(***************************************************************************)
(* The environment: the cache directory and the remote source.             *)
(***************************************************************************)
NoFile == "<no such file>"
NetFail == "<no answer>"

RepoPath == "/cache"
SourceUrl == "http://src"
BadUrl == "http://%zz"

\* path.Join(conf.RepoPath, go1Dot)
repobase == RepoPath \o "/" \o go1Dot

\* url.JoinPath(conf.SourceUrl, "api", go1Dot): [err, url]
joinPath(base) ==
    IF base = BadUrl THEN [err |-> errUrl, url |-> ""]
    ELSE [err |-> "", url |-> base \o "/api/" \o go1Dot]

FileA == "pkg a, func F()\npkg b/a, type T struct, G int\n"
FileB == "# c\npkg a, func F() //deprecated\r\n\npkg a, func H() # new"
FileC == "pkg a, func G()\npkg a func F()\n"
NotFoundBody == "404: Not Found\n"

CacheFiles == {FileA}
RemoteBodies == {FileB, FileC, NotFoundBody}

Versions == 0..MaxVersion
Paths == {repobase \o fileEnd(n) : n \in Versions}
Urls == {joinPath(SourceUrl).url \o fileEnd(n) : n \in Versions}

noRead == [fileEnd |-> "", data |-> "", err |-> "", hit |-> FALSE]
noLine == [n |-> 0, line |-> "", version |-> ""]
noQuery == [op |-> "none"]
noProd == [pc |-> "none"]
noCons == [pc |-> "none"]
noSplit == [done |-> FALSE]

(***************************************************************************)
(* read, download and writeFile.                                           *)
(***************************************************************************)
\* download: [err, body]
download(rem, dURL) ==
    IF rem[dURL] = NetFail THEN [err |-> errDownload, body |-> ""]
    ELSE [err |-> "", body |-> rem[dURL]]

\* writeFile that reports success and writes nothing
writeNothing(c, path, bytes, ok) == [err |-> "", cache |-> c]

\* writeFile: [err, cache]; ok is whether the file system accepts the write
writeFile(c, path, bytes, ok) ==
    IF ok THEN [err |-> "", cache |-> [c EXCEPT ![path] = bytes]]
    ELSE [err |-> errWriteFile, cache |-> c]

isNotFound(body) == TrimSpace(body) = "404: Not Found"

\* dl.read(fileEnd): [data, err, cache, requests, hit]
read(c, rem, reqs, sourceBase, end, ok) ==
    LET filePath == repobase \o end
        fileURL == sourceBase \o end
    IN  IF c[filePath] # NoFile
        THEN [data |-> c[filePath], err |-> "", cache |-> c, requests |-> reqs,
              hit |-> TRUE]
        ELSE LET d == download(rem, fileURL)
                 reqs1 == Append(reqs, fileURL)
             IN
            IF d.err # ""
            THEN [data |-> "", err |-> d.err, cache |-> c, requests |-> reqs1,
                  hit |-> FALSE]
            ELSE IF isNotFound(d.body)
            THEN [data |-> "", err |-> errUnexistingVersion, cache |-> c,
                  requests |-> reqs1, hit |-> FALSE]
            ELSE LET w == writeFile(c, filePath, d.body, ok) IN
                 [data |-> d.body, err |-> w.err, cache |-> w.cache,
                  requests |-> reqs1, hit |-> FALSE]

\* What load does with the error of a read: the error it returns, "" for nil.
\* The go1 read returns every error; a later read ends the series on the marker.
loadError(n, e) == IF n >= 1 /\ e = errUnexistingVersion THEN "" ELSE e

(***************************************************************************)
(* Queries.                                                                *)
(***************************************************************************)
\* Since returns (string, error): ret is the tuple of the strings returned
Since(d, pkg, symbol) ==
    IF pkg \notin DOMAIN d THEN [ret |-> <<"">>, err |-> ErrUnknownPackage]
    ELSE IF symbol \notin DOMAIN d[pkg] THEN [ret |-> <<"">>, err |-> ErrUnknownSymbol]
    ELSE [ret |-> <<d[pkg][symbol][1]>>, err |-> ""]

Search(idx, key) == indexOf(idx, key)

QueryPkgs == {"a", "zz"}
QuerySymbols == {"", "f", "zz"}
QueryKeys == {"f", "zz"}

(***************************************************************************)
(* LoadDatas on a file system: the actions.                                *)
(***************************************************************************)
Init ==
    /\ cache \in [Paths -> CacheFiles \cup {NoFile}]
    /\ remote \in [Urls -> RemoteBodies \cup {NetFail}]
    /\ requests = <<>>
    /\ pc = "start"
    /\ minorVersion = 0
    /\ rest = <<>>
    /\ data = emptyMap
    /\ index = emptyMap
    /\ err = ""
    /\ probed = <<>>
    /\ lastRead = noRead
    /\ lastLine = noLine
    /\ queryRes = noQuery
    /\ input = ""
    /\ splitRes = noSplit
    /\ prod = noProd
    /\ cons = noCons

\* LoadDatas up to the call of load; sourceUrl is conf.SourceUrl
LoadDatas(sourceUrl) ==
    /\ pc = "start"
    /\ LET j == joinPath(sourceUrl) IN
        /\ pc' = IF j.err # "" THEN "failed" ELSE "read"
        /\ err' = j.err
    /\ UNCHANGED <<cache, remote, requests, minorVersion, rest, data, index,
                   probed, lastRead, lastLine, queryRes, input, splitRes,
                   prod, cons>>

\* The end of parseVersionData without error: load's loop goes on.
afterFile(n) == nextMinorVersion(n)

\* what load does with the result r of read(end)
readDone(end, r) ==
    /\ cache' = r.cache
    /\ requests' = r.requests
    /\ probed' = Append(probed, end)
    /\ lastRead' = [fileEnd |-> end, data |-> r.data, err |-> r.err, hit |-> r.hit]
    /\ IF r.err # ""
       THEN /\ err' = loadError(minorVersion, r.err)
            /\ pc' = IF loadError(minorVersion, r.err) = "" THEN "done" ELSE "failed"
            /\ UNCHANGED <<minorVersion, rest>>
       ELSE IF scanLines(r.data) = <<>>
       THEN /\ minorVersion' = afterFile(minorVersion)
            /\ UNCHANGED <<pc, rest, err>>
       ELSE /\ pc' = "parse"
            /\ rest' = scanLines(r.data)
            /\ UNCHANGED <<minorVersion, err>>

\* load: one read call and what load does with its result
Read(ok) ==
    /\ pc = "read"
    /\ minorVersion <= MaxVersion
    /\ readDone(fileEnd(minorVersion),
                read(cache, remote, requests, joinPath(SourceUrl).url,
                     fileEnd(minorVersion), ok))
    /\ UNCHANGED <<remote, data, index, lastLine, queryRes, input, splitRes,
                   prod, cons>>

\* what load and parseVersionData do with the result r of one line
lineDone(r) ==
    /\ data' = r.db.data
    /\ index' = r.db.index
    /\ err' = r.err
    /\ IF r.panic THEN pc' = "panicked" /\ UNCHANGED <<rest, minorVersion>>
       ELSE IF r.err # "" THEN pc' = "failed" /\ UNCHANGED <<rest, minorVersion>>
       ELSE /\ rest' = Tail(rest)
            /\ IF Tail(rest) = <<>>
               THEN pc' = "read" /\ minorVersion' = afterFile(minorVersion)
               ELSE UNCHANGED <<pc, minorVersion>>

\* parseVersionData: one line of the scan
ParseLine ==
    /\ pc = "parse"
    /\ rest # <<>>
    /\ lastLine' = [n |-> lastLine.n + 1, line |-> Head(rest),
                    version |-> versionTag(minorVersion)]
    /\ lineDone(parseLine([data |-> data, index |-> index],
                          versionTag(minorVersion), Head(rest)))
    /\ UNCHANGED <<cache, remote, requests, probed, lastRead, queryRes, input, splitRes,
                   prod, cons>>

\* LoadDatas has returned (VersionDatas, error); the maps of the returned
\* VersionDatas are the maps load filled.
returned == pc \in {"done", "failed"}

DoSince(pkg, symbol) ==
    /\ returned
    /\ LET r == Since(data, pkg, symbol) IN
        queryRes' = [op |-> "Since", pkg |-> pkg, symbol |-> symbol,
                     ret |-> r.ret, err |-> r.err]
    /\ UNCHANGED <<cache, remote, requests, pc, minorVersion, rest, data, index,
                   err, probed, lastRead, lastLine, input, splitRes,
                   prod, cons>>

DoSearch(key) ==
    /\ returned
    /\ queryRes' = [op |-> "Search", key |-> key, ret |-> Search(index, key)]
    /\ UNCHANGED <<cache, remote, requests, pc, minorVersion, rest, data, index,
                   err, probed, lastRead, lastLine, input, splitRes,
                   prod, cons>>

Next ==
    \/ \E u \in {SourceUrl, BadUrl} : LoadDatas(u)
    \/ \E ok \in BOOLEAN : Read(ok)
    \/ ParseLine
    \/ \E p \in QueryPkgs, s \in QuerySymbols : DoSince(p, s)
    \/ \E k \in QueryKeys : DoSearch(k)

Spec == Init /\ [][Next]_vars

(***************************************************************************)
(* The load pass with the contents of the version files left open: any     *)
(* line of LinePool may be the next line of the current file, and the      *)
(* current file may end and the next version's file be read.               *)
(***************************************************************************)
LAddF == "pkg a, func F()"
LAddLowerF == "pkg a, func f()"
LDepF == "pkg a, func F() //deprecated"
LAddOtherF == "pkg b/a, func F()"
LTypeMember == "pkg a, type F struct, G int"
LNoComma == "pkg a func F()"

LinePool == {LAddF, LAddLowerF, LDepF, LAddOtherF, LTypeMember, LNoComma}

InitLines ==
    /\ cache = [p \in Paths |-> NoFile]
    /\ remote = [u \in Urls |-> NetFail]
    /\ requests = <<>>
    /\ pc = "feed"
    /\ minorVersion = 0
    /\ rest = <<>>
    /\ data = emptyMap
    /\ index = emptyMap
    /\ err = ""
    /\ probed = <<>>
    /\ lastRead = noRead
    /\ lastLine = noLine
    /\ queryRes = noQuery
    /\ input = ""
    /\ splitRes = noSplit
    /\ prod = noProd
    /\ cons = noCons

\* what parseVersionData and load do with the result r of one line
feedDone(r) ==
    /\ data' = r.db.data
    /\ index' = r.db.index
    /\ err' = r.err
    /\ pc' = IF r.panic THEN "panicked" ELSE IF r.err # "" THEN "failed" ELSE "feed"

\* parseVersionData: one line of the scan
FeedLine(line) ==
    /\ pc = "feed"
    /\ lastLine.n < MaxFeed
    /\ lastLine' = [n |-> lastLine.n + 1, line |-> line,
                    version |-> versionTag(minorVersion)]
    /\ feedDone(parseLine([data |-> data, index |-> index],
                          versionTag(minorVersion), line))
    /\ UNCHANGED <<cache, remote, requests, minorVersion, rest, probed, lastRead,
                   queryRes, input, splitRes,
                   prod, cons>>

\* the scan of the current file ends and load reads the next version's file
NextFile ==
    /\ pc = "feed"
    /\ minorVersion < MaxVersion
    /\ minorVersion' = afterFile(minorVersion)
    /\ UNCHANGED <<cache, remote, requests, pc, rest, data, index, err, probed,
                   lastRead, lastLine, queryRes, input, splitRes,
                   prod, cons>>

NextLines ==
    \/ \E l \in LinePool : FeedLine(l)
    \/ NextFile

SpecLines == InitLines /\ [][NextLines]_vars

(***************************************************************************)
(* smartSplit as a function of its input: every string over Alphabet of    *)
(* at most MaxLen runes.                                                   *)
(***************************************************************************)
Alphabet == {"a", ",", " ", "(", ")", "]", "'", "\\"}

RECURSIVE stringsOfLen(_)
stringsOfLen(n) ==
    IF n = 0 THEN {""}
    ELSE {s \o c : s \in stringsOfLen(n - 1), c \in Alphabet}

Inputs == UNION {stringsOfLen(n) : n \in 0..MaxLen}

InitSplit ==
    /\ cache = [p \in Paths |-> NoFile]
    /\ remote = [u \in Urls |-> NetFail]
    /\ requests = <<>>
    /\ pc = "split"
    /\ minorVersion = 0
    /\ rest = <<>>
    /\ data = emptyMap
    /\ index = emptyMap
    /\ err = ""
    /\ probed = <<>>
    /\ lastRead = noRead
    /\ lastLine = noLine
    /\ queryRes = noQuery
    /\ input \in Inputs
    /\ splitRes = noSplit
    /\ prod = noProd
    /\ cons = noCons

splitDone(r) ==
    splitRes' = [done |-> TRUE, err |-> r.err, first |-> r.first, second |-> r.second]

Split ==
    /\ pc = "split"
    /\ ~splitRes.done
    /\ splitDone(smartSplit(input))
    /\ UNCHANGED <<loadVars, input, chanVars>>

NextSplit == Split

SpecSplit == InitSplit /\ [][NextSplit]_vars

(***************************************************************************)
(* parseVersionData on a version file of one line: a method description    *)
(* for package a, a func description for package b/A, or a bare text, the  *)
(* text being any string over DescAlphabet of at most MaxDesc runes.       *)
(***************************************************************************)
DescAlphabet == {"(", ")", "*", "T", "M"}

RECURSIVE descsOfLen(_)
descsOfLen(n) ==
    IF n = 0 THEN {""}
    ELSE {s \o c : s \in descsOfLen(n - 1), c \in DescAlphabet}

Descs == UNION {descsOfLen(n) : n \in 0..MaxDesc}

MethodPrefix == "pkg a, method "
FuncPrefix == "pkg b/A, func "

OneLineFiles == {<<pre \o s>> : pre \in {MethodPrefix, FuncPrefix, ""}, s \in Descs}

InitParse ==
    /\ cache = [p \in Paths |-> NoFile]
    /\ remote = [u \in Urls |-> NetFail]
    /\ requests = <<>>
    /\ pc = "parse"
    /\ minorVersion = 0
    /\ rest \in OneLineFiles
    /\ data = emptyMap
    /\ index = emptyMap
    /\ err = ""
    /\ probed = <<>>
    /\ lastRead = noRead
    /\ lastLine = noLine
    /\ queryRes = noQuery
    /\ input = ""
    /\ splitRes = noSplit
    /\ prod = noProd
    /\ cons = noCons

NextParse == ParseLine

SpecParse == InitParse /\ [][NextParse]_vars

(***************************************************************************)
(* smartSplit as the two goroutines of split.go: sendChar sends the runes  *)
(* of the line on the unbuffered channel chars and closes it; the caller   *)
(* of smartSplit receives them, one call frame of smartSplit, splitSub,    *)
(* consumeString or splitSecond per entry of cons.stack, innermost last.   *)
(***************************************************************************)
frame(kind, delim) ==
    [kind |-> kind, delim |-> delim, buffer |-> "", splitted |-> <<>>,
     esc |-> FALSE, first |-> <<>>]

inner(stack) == stack[Len(stack)]

replaceInner(stack, f) == [stack EXCEPT ![Len(stack)] = f]

\* splitted, buffer = appendBuffer(splitted, buffer)
flushFrame(f) ==
    [f EXCEPT !.splitted = appendBuffer(f.splitted, f.buffer)[1], !.buffer = ""]

\* the innermost call returns node n, which its caller appends to splitted
returnNode(stack, n) ==
    SubSeq(stack, 1, Len(stack) - 2)
        \o <<[stack[Len(stack) - 1] EXCEPT !.splitted = Append(@, n)]>>

going(stack) == [err |-> "", stack |-> stack]

panicking(e) == [err |-> e, stack |-> <<>>]

\* case '"', '\'' and case '(', '[', '{' of the three loops
openNode(stack, c) ==
    IF c \in {"\"", "'"}
    THEN going(Append(replaceInner(stack, flushFrame(inner(stack))), frame("str", c)))
    ELSE going(Append(replaceInner(stack, flushFrame(inner(stack))),
                      frame("sub", closerOf(c))))

\* consumeString on rune c; esc is the receive of char2 after a backslash
strStep(stack, c) ==
    IF inner(stack).esc
    THEN going(replaceInner(stack, [inner(stack) EXCEPT !.buffer = @ \o "\\" \o c,
                                                        !.esc = FALSE]))
    ELSE IF c = inner(stack).delim
    THEN going(returnNode(stack, stringNode(inner(stack).buffer)))
    ELSE IF c = "\\"
    THEN going(replaceInner(stack, [inner(stack) EXCEPT !.esc = TRUE]))
    ELSE going(replaceInner(stack, [inner(stack) EXCEPT !.buffer = @ \o c]))

\* splitSub on rune c
subStep(stack, c) ==
    IF c = inner(stack).delim
    THEN going(returnNode(stack, listNode(flushFrame(inner(stack)).splitted)))
    ELSE IF c \in {"\"", "'", "(", "[", "{"} THEN openNode(stack, c)
    ELSE IF c \in {")", "]", "}"} THEN panicking(errParsingWrongClosing)
    ELSE IF c \in {",", " "} THEN going(replaceInner(stack, flushFrame(inner(stack))))
    ELSE going(replaceInner(stack, [inner(stack) EXCEPT !.buffer = @ \o c]))

\* the first loop of smartSplit on a top-level comma
topComma(stack, t) ==
    IF t.loop
    THEN going(replaceInner(stack, [inner(stack) EXCEPT !.buffer = t.buffer,
                                                        !.splitted = t.splitted]))
    ELSE going(<<[frame("second", "") EXCEPT
                    !.first = appendBuffer(t.splitted, t.buffer)[1]]>>)

\* the first loop of smartSplit on rune c
topStep(stack, c) ==
    IF c \in {"\"", "'", "(", "[", "{"} THEN openNode(stack, c)
    ELSE IF c \in {")", "]", "}"} THEN panicking(errParsingUnexpectedClosing)
    ELSE IF c = ","
    THEN topComma(stack, onTopLevelComma(0, inner(stack).buffer, inner(stack).splitted))
    ELSE IF c = " " THEN going(replaceInner(stack, flushFrame(inner(stack))))
    ELSE going(replaceInner(stack, [inner(stack) EXCEPT !.buffer = @ \o c]))

\* splitSecond on rune c
secondStep(stack, c) ==
    IF c \in {"\"", "'", "(", "[", "{"} THEN openNode(stack, c)
    ELSE IF c \in {")", "]", "}"} THEN panicking(errParsingWrongClosing)
    ELSE IF c = "," THEN panicking(errParsingThirdPart)
    ELSE IF c = " " THEN going(replaceInner(stack, flushFrame(inner(stack))))
    ELSE going(replaceInner(stack, [inner(stack) EXCEPT !.buffer = @ \o c]))

\* the body of `for char := range chars` of the innermost call
consumerStep(stack, c) ==
    CASE inner(stack).kind = "str" -> strStep(stack, c)
      [] inner(stack).kind = "sub" -> subStep(stack, c)
      [] inner(stack).kind = "top" -> topStep(stack, c)
      [] inner(stack).kind = "second" -> secondStep(stack, c)

\* the innermost call finds the channel closed
consumerEnd(stack) ==
    CASE inner(stack).kind = "str" ->
            [err |-> errParsingString, first |-> <<>>, second |-> <<>>]
      [] inner(stack).kind = "sub" ->
            [err |-> errParsingClosing, first |-> <<>>, second |-> <<>>]
      [] inner(stack).kind = "top" ->
            [err |-> "", first |-> flushFrame(inner(stack)).splitted, second |-> <<>>]
      [] inner(stack).kind = "second" ->
            [err |-> "", first |-> inner(stack).first,
             second |-> flushFrame(inner(stack)).splitted]

ChanInputs == UNION {stringsOfLen(n) : n \in 0..MaxChan}

InitChan ==
    /\ cache = [p \in Paths |-> NoFile]
    /\ remote = [u \in Urls |-> NetFail]
    /\ requests = <<>>
    /\ pc = "chan"
    /\ minorVersion = 0
    /\ rest = <<>>
    /\ data = emptyMap
    /\ index = emptyMap
    /\ err = ""
    /\ probed = <<>>
    /\ lastRead = noRead
    /\ lastLine = noLine
    /\ queryRes = noQuery
    /\ input \in ChanInputs
    /\ splitRes = noSplit
    /\ prod = [pc |-> "range", k |-> 1]
    /\ cons = [pc |-> "recv", char |-> "", received |-> "", stack |-> <<frame("top", "")>>]

\* sendChar sending the rune after the next one
sendSkip(k) == k + 2

\* sendChar: the range loop goes to the next rune of line
sendNext(k) == k + 1

\* sendChar: the head of `for _, char := range line`
ProducerRange ==
    /\ pc = "chan"
    /\ prod.pc = "range"
    /\ prod' = [prod EXCEPT !.pc = IF prod.k <= Len(input) THEN "send" ELSE "close"]
    /\ UNCHANGED <<loadVars, splitVars, cons>>

\* chars <- char meets a receive of the consumer
Handoff ==
    /\ pc = "chan"
    /\ prod.pc = "send"
    /\ cons.pc = "recv"
    /\ prod' = [prod EXCEPT !.pc = "range", !.k = sendNext(prod.k)]
    /\ cons' = [cons EXCEPT !.pc = "proc", !.char = charAt(input, prod.k),
                            !.received = @ \o charAt(input, prod.k)]
    /\ UNCHANGED <<loadVars, splitVars>>

\* close(chars) and the end of sendChar
ProducerClose ==
    /\ pc = "chan"
    /\ prod.pc = "close"
    /\ prod' = [prod EXCEPT !.pc = "done"]
    /\ UNCHANGED <<loadVars, splitVars, cons>>

procDone(r) ==
    IF r.err # ""
    THEN /\ cons' = [cons EXCEPT !.pc = "panicked", !.stack = <<>>]
         /\ splitRes' = [done |-> TRUE, err |-> r.err, first |-> <<>>, second |-> <<>>]
    ELSE /\ cons' = [cons EXCEPT !.pc = "recv", !.stack = r.stack]
         /\ UNCHANGED splitRes

\* the consumer handles the rune it received
ConsumerProc ==
    /\ pc = "chan"
    /\ cons.pc = "proc"
    /\ procDone(consumerStep(cons.stack, cons.char))
    /\ UNCHANGED <<loadVars, input, prod>>

endDone(r) ==
    /\ cons' = [cons EXCEPT !.pc = IF r.err # "" THEN "panicked" ELSE "done",
                            !.stack = <<>>]
    /\ splitRes' = [done |-> TRUE, err |-> r.err, first |-> r.first, second |-> r.second]

\* a receive of the consumer on the closed channel
ConsumerClosed ==
    /\ pc = "chan"
    /\ cons.pc = "recv"
    /\ prod.pc = "done"
    /\ endDone(consumerEnd(cons.stack))
    /\ UNCHANGED <<loadVars, input, prod>>

NextChan ==
    \/ ProducerRange
    \/ Handoff
    \/ ProducerClose
    \/ ConsumerProc
    \/ ConsumerClosed

SpecChan == InitChan /\ [][NextChan]_vars

\* the Go scheduler runs a goroutine that can run
SpecChanFair == SpecChan /\ WF_vars(NextChan)

(***************************************************************************)
(* Properties.                                                             *)
(***************************************************************************)
DepLines == {LDepF}

\* the step scanned one more line
lineStep == lastLine'.n = lastLine.n + 1

hasRecord(d, p, k) == p \in DOMAIN d /\ k \in DOMAIN d[p]

hasEntry(idx, key, name) == \E i \in 1..Len(Search(idx, key)) : Search(idx, key)[i][1] = name

\* C1 (no-override law): a record that register stored with introduced
\* version V keeps V in every later step, whatever lines and files follow;
\* a record a non-deprecation line creates, and the record "" of a package
\* on its first mention, carry the version of the file being scanned.
C1_NoOverride ==
    [][ /\ \A p \in DOMAIN data : \A k \in DOMAIN data[p] :
              data[p][k][1] # "" =>
                  /\ hasRecord(data', p, k)
                  /\ data'[p][k][1] = data[p][k][1]
        /\ \A p \in DOMAIN data' : \A k \in DOMAIN data'[p] :
              (~hasRecord(data, p, k) /\ (k = "" \/ lastLine'.line \notin DepLines)) =>
                  data'[p][k] = <<lastLine'.version, "">>
      ]_vars

\* C1 witness: F of package a, introduced in go1, is mentioned again by a
\* line of go1.2 and still carries go1.
C1_Witness ==
    /\ lastLine.line = LAddF
    /\ lastLine.version = "go1.2"
    /\ pc = "feed"
    /\ hasRecord(data, "a", "f")
    /\ data["a"]["f"][1] = "go1"
    /\ data["a"][""][1] = "go1"

\* what a deprecation line of the pool names
depPkg(l) == CASE l = LDepF -> "a"
depSymbol(l) == CASE l = LDepF -> "F"

entryPos(idx, key, name) ==
    CHOOSE i \in 1..Len(Search(idx, key)) : Search(idx, key)[i][1] = name

\* C2: a deprecation line of version W for a (package, symbol) registered
\* under that name sets the deprecated version of its record and of its
\* index entry to W and changes nothing else of the database.
C2_DeprecationFrame ==
    [][ \A l \in DepLines :
          LET p == depPkg(l)
              k == ToLower(depSymbol(l))
              name == depPkg(l) \o " " \o depSymbol(l)
          IN  (/\ lineStep
               /\ lastLine'.line = l
               /\ hasRecord(data, p, k)
               /\ hasEntry(index, k, name)) =>
                  /\ data' = [data EXCEPT ![p][k] = <<data[p][k][1], lastLine'.version>>]
                  /\ data'[p][k][1] # ""
                  /\ index' = [index EXCEPT ![k][entryPos(index, k, name)] =
                                  <<name, index[k][entryPos(index, k, name)][2],
                                    lastLine'.version>>]
                  /\ pc' = pc
      ]_vars

\* C2 witness: F of package a, introduced in go1 and followed in the index
\* by F of package b/a, has just been deprecated by a line of go1.1.
C2_Witness ==
    /\ lastLine.line = LDepF
    /\ lastLine.version = "go1.1"
    /\ hasRecord(data, "a", "f")
    /\ data["a"]["f"] = <<"go1", "go1.1">>
    /\ Search(index, "f") = << <<"a F", "go1", "go1.1">>, <<"b/a F", "go1", "">> >>

\* C3 as claimed: every record of the database has a non-empty introduced
\* version, and a record has its entry in the search index (a deprecation
\* line creates neither).
C3_DeprecationCreatesNothing ==
    \A p \in DOMAIN data : \A k \in DOMAIN data[p] :
        /\ data[p][k][1] # ""
        /\ k # "" => \E i \in 1..Len(Search(index, k)) :
                         ToLower(Search(index, k)[i][1]) = p \o " " \o k

\* C4 as claimed: once the line `pkg a, type F struct, G int` is scanned
\* without error, package a has the record f.g.
C4_TypeMemberRegistered ==
    (lastLine.line = LTypeMember /\ pc = "feed") => hasRecord(data, "a", "f.g")

\* The positions of the commas of s outside every group and literal.
RECURSIVE topCommas(_, _, _, _)
topCommas(s, i, depth, quote) ==
    IF i > Len(s) THEN {}
    ELSE LET c == charAt(s, i) IN
        IF quote # ""
        THEN IF c = quote THEN topCommas(s, i + 1, depth, "")
             ELSE IF c = "\\" THEN topCommas(s, i + 2, depth, quote)
             ELSE topCommas(s, i + 1, depth, quote)
        ELSE IF c \in {"\"", "'"} THEN topCommas(s, i + 1, depth, c)
        ELSE IF c \in {"(", "[", "{"} THEN topCommas(s, i + 1, depth + 1, "")
        ELSE IF c \in {")", "]", "}"}
        THEN topCommas(s, i + 1, IF depth > 0 THEN depth - 1 ELSE 0, "")
        ELSE IF c = "," /\ depth = 0 THEN {i} \cup topCommas(s, i + 1, depth, "")
        ELSE topCommas(s, i + 1, depth, "")

minOf(S) == CHOOSE x \in S : \A y \in S : x <= y

\* the tokens of a text without top-level comma
tokensOf(s) == smartSplit(s).first
wellFormed(s) == smartSplit(s).err = ""

\* C5 as claimed, for inputs whose pieces between top-level commas are
\* well formed: no top-level comma, an empty secondary list; one, the
\* tokens before it and the tokens after it; two or more, errParsingThirdPart
\* and no list.
C5_TopLevelCommas ==
    splitRes.done =>
        LET P == topCommas(input, 1, 0, "")
            k1 == minOf(P)
            k2 == minOf(P \ {k1})
        IN  /\ (P = {} /\ splitRes.err = "") => splitRes.second = <<>>
            /\ (Cardinality(P) = 1 /\ wellFormed(SubSeq(input, 1, k1 - 1))
                                   /\ wellFormed(SubSeq(input, k1 + 1, Len(input)))) =>
                   /\ splitRes.err = ""
                   /\ splitRes.first = tokensOf(SubSeq(input, 1, k1 - 1))
                   /\ splitRes.second = tokensOf(SubSeq(input, k1 + 1, Len(input)))
            /\ (Cardinality(P) >= 2 /\ wellFormed(SubSeq(input, 1, k1 - 1))
                                    /\ wellFormed(SubSeq(input, k1 + 1, k2 - 1))) =>
                   /\ splitRes.err = errParsingThirdPart
                   /\ splitRes.first = <<>>
                   /\ splitRes.second = <<>>

\* The database that scanning the lines leaves, when no line fails.
RECURSIVE parseLines(_, _, _)
parseLines(db, version, lines) ==
    IF lines = <<>> THEN db
    ELSE parseLines(parseLine(db, version, Head(lines)).db, version, Tail(lines))

\* The database made of the cached files of go1 .. go1.(n-1), from version i on.
RECURSIVE filesDb(_, _, _)
filesDb(db, i, n) ==
    IF i >= n THEN db
    ELSE filesDb(parseLines(db, versionTag(i), scanLines(cache[repobase \o fileEnd(i)])),
                 i + 1, n)

tagsBelow(n) == {versionTag(i) : i \in 0..(n - 1)} \cup {""}

\* C6: the read calls are those of go1, go1.1, go1.2, ... in this order, each
\* once; a failing read of go1, the not-found marker included, fails the load;
\* when load returns nil the last read, that of go1.N with N >= 1, met the
\* not-found marker, and the database is the one the files of go1 ..
\* go1.(N-1) make, with no version tag of go1.N or later in it.
C6_EndOfSeries ==
    /\ probed = [i \in 1..Len(probed) |-> fileEnd(i - 1)]
    /\ (Len(probed) = 1 /\ lastRead.err # "") => (pc = "failed" /\ err = lastRead.err)
    /\ pc = "done" =>
          LET N == Len(probed) - 1 IN
          /\ N >= 1
          /\ err = ""
          /\ lastRead.fileEnd = fileEnd(N)
          /\ lastRead.err = errUnexistingVersion
          /\ [data |-> data, index |-> index] = filesDb(emptyDb, 0, N)
          /\ \A p \in DOMAIN data : \A k \in DOMAIN data[p] :
                data[p][k][1] \in tagsBelow(N) /\ data[p][k][2] \in tagsBelow(N)

\* C6 witness: the series ends at go1.1 although the cache holds a file for
\* go1.2; the database holds the records of go1 only.
C6_Witness ==
    /\ pc = "done"
    /\ probed = <<"txt", "1.txt">>
    /\ cache[repobase \o "2.txt"] = FileA
    /\ hasRecord(data, "a", "f")
    /\ data["a"]["f"] = <<"go1", "">>

\* C7 as claimed: when load has failed the database LoadDatas returns holds
\* no record, and every Since and Search on it finds nothing.
C7_NoPartialDatabase ==
    pc = "failed" =>
        /\ DOMAIN data = {}
        /\ DOMAIN index = {}
        /\ queryRes.op = "Since" => queryRes.err # ""
        /\ queryRes.op = "Search" => queryRes.ret = <<>>

\* C8 as claimed: Since returns UnknownPackage, UnknownSymbol, or without
\* error the pair (introduced version, deprecated version) of the record;
\* Since(package, "") succeeds for every package of the database.
C8_Since ==
    /\ queryRes.op = "Since" =>
          IF queryRes.pkg \notin DOMAIN data THEN queryRes.err = ErrUnknownPackage
          ELSE IF queryRes.symbol \notin DOMAIN data[queryRes.pkg]
          THEN queryRes.err = ErrUnknownSymbol
          ELSE /\ queryRes.err = ""
               /\ queryRes.ret = data[queryRes.pkg][queryRes.symbol]
    /\ \A p \in DOMAIN data : Since(data, p, "").err = ""

versionNumber(tag) == CHOOSE n \in 0..(MaxVersion + 1) : versionTag(n) = tag

symbolPart(name) == sliceFrom(name, IndexByte(name, " ") + 1)

leafKey(name) ==
    IF IndexByte(name, " ") = -1
    THEN sliceFrom(name, LastIndexByte(name, "/") + 1)
    ELSE ToLower(sliceFrom(symbolPart(name), LastIndexByte(symbolPart(name), ".") + 1))

\* C9: Search(key) is the list of the entries registered under key, in the
\* order of their registration: every entry of the list has leaf name key,
\* every package and every record with an introduced version has its one
\* entry in the list of its leaf name, introduced versions never decrease
\* along a list, and a step leaves a list as it is, appends one entry of the
\* version being scanned, or changes the deprecated version of one entry in
\* place.
C9_SearchInv ==
    /\ \A key \in DOMAIN index :
          /\ \A i \in 1..Len(Search(index, key)) : leafKey(Search(index, key)[i][1]) = key
          /\ \A i, j \in 1..Len(Search(index, key)) :
                i < j => versionNumber(Search(index, key)[i][2])
                            <= versionNumber(Search(index, key)[j][2])
    /\ \A p \in DOMAIN data :
          /\ Cardinality({i \in 1..Len(Search(index, leafKey(p))) :
                            Search(index, leafKey(p))[i] = <<p, data[p][""][1], "">>}) = 1
          /\ \A k \in DOMAIN data[p] \ {""} :
                data[p][k][1] # "" =>
                    Cardinality({i \in 1..Len(Search(index, leafKey(p \o " " \o k))) :
                        /\ ToLower(Search(index, leafKey(p \o " " \o k))[i][1]) = p \o " " \o k
                        /\ Search(index, leafKey(p \o " " \o k))[i][2] = data[p][k][1]}) = 1

C9_SearchStep ==
    \A key \in (DOMAIN index) \cup (DOMAIN index') :
        LET old == Search(index, key)
            new == Search(index', key)
        IN  \/ new = old
            \/ /\ Len(new) = Len(old) + 1
               /\ SubSeq(new, 1, Len(old)) = old
               /\ new[Len(new)][2] = lastLine'.version
               /\ new[Len(new)][3] = ""
            \/ /\ Len(new) = Len(old)
               /\ \E i \in 1..Len(old) :
                     /\ new[i] = <<old[i][1], old[i][2], lastLine'.version>>
                     /\ \A j \in 1..Len(old) : j # i => new[j] = old[j]

\* C9: the list invariant holds in every state and every step is one of the
\* three list steps (unchanged, one entry appended, one entry deprecated in place).
C9_Search == []C9_SearchInv /\ [][C9_SearchStep]_vars

\* C9 witness: Search("f") lists F of a and F of b/a, in this order, and a
\* line of go1.2 has just deprecated the first in place.
C9_Witness ==
    /\ lastLine.line = LDepF
    /\ Search(index, "f") = << <<"a F", "go1", "go1.2">>, <<"b/a F", "go1.1", "">> >>

\* C10: a read whose file is in the cache returns the cached bytes, leaves
\* the cache as it is and sends no request; a read that misses the cache and
\* gets a body other than the not-found marker leaves exactly the returned
\* bytes at the file's cache path when it succeeds, and changes no other
\* path; a read that gets the not-found marker returns errUnexistingVersion
\* and writes nothing.
C10_ReadStep ==
    (Len(probed') = Len(probed) + 1) =>
        LET end == fileEnd(minorVersion)
            path == repobase \o end
            url == joinPath(SourceUrl).url \o end
        IN  /\ lastRead'.fileEnd = end
            /\ cache[path] # NoFile =>
                  /\ lastRead'.err = "" /\ lastRead'.data = cache[path]
                  /\ cache' = cache
                  /\ requests' = requests
            /\ cache[path] = NoFile =>
                  /\ requests' = Append(requests, url)
                  /\ \A q \in Paths \ {path} : cache'[q] = cache[q]
                  /\ (remote[url] # NetFail /\ isNotFound(remote[url])) =>
                        (lastRead'.err = errUnexistingVersion /\ cache' = cache)
                  /\ remote[url] = NetFail => (lastRead'.err # "" /\ cache' = cache)
                  /\ (remote[url] # NetFail /\ ~isNotFound(remote[url])) =>
                        /\ lastRead'.data = remote[url]
                        /\ lastRead'.err = "" => cache'[path] = remote[url]
            /\ lastRead'.err = "" => cache'[path] = lastRead'.data

\* C10: every read step follows the fetch/cache protocol above.
C10_FetchCache == [][C10_ReadStep]_vars

\* C10 witness: go1.1 was not in the cache, its body came from the remote
\* source and is now in the cache.
C10_Witness ==
    /\ lastRead = [fileEnd |-> "1.txt", data |-> FileB, err |-> "", hit |-> FALSE]
    /\ cache[repobase \o "1.txt"] = FileB
    /\ requests # <<>>

\* C11 as claimed: a deprecation line for a (package, symbol) whose record
\* already has a deprecated version leaves the record and the whole database
\* as they were, in the same version file and in a later one.
C11_DeprecationIdempotent ==
    [][ \A l \in DepLines :
          (/\ lineStep
           /\ lastLine'.line = l
           /\ hasRecord(data, depPkg(l), ToLower(depSymbol(l)))
           /\ data[depPkg(l)][ToLower(depSymbol(l))][1] # ""
           /\ data[depPkg(l)][ToLower(depSymbol(l))][2] # "") =>
              /\ data' = data
              /\ index' = index
      ]_vars

\* the positions <<key, i>> of the entries of the search index
allEntries(idx) == UNION {{<<key, i>> : i \in 1..Len(idx[key])} : key \in DOMAIN idx}

entriesNamed(idx, lowerName) ==
    {e \in allEntries(idx) : ToLower(idx[e[1]][e[2]][1]) = lowerName}

\* C17 as claimed: every package of the exact map has exactly one package
\* entry in the search index, every symbol key of a package has exactly one
\* entry, which carries the versions of the record, and every entry of the
\* search index has its record in the exact map.
C17_MapsConsistent ==
    /\ \A p \in DOMAIN data :
          /\ Cardinality(entriesNamed(index, p)) = 1
          /\ \A k \in DOMAIN data[p] \ {""} :
                /\ Cardinality(entriesNamed(index, p \o " " \o k)) = 1
                /\ \A e \in entriesNamed(index, p \o " " \o k) :
                      /\ index[e[1]][e[2]][2] = data[p][k][1]
                      /\ index[e[1]][e[2]][3] = data[p][k][2]
    /\ \A e \in allEntries(index) :
          \/ index[e[1]][e[2]][1] \in DOMAIN data
          \/ \E p \in DOMAIN data : \E k \in DOMAIN data[p] \ {""} :
                ToLower(index[e[1]][e[2]][1]) = p \o " " \o k

\* The first structural error a forward scan of s meets: "top" a closing
\* delimiter outside every group, "wrong" a closing delimiter that is not the
\* one of the innermost open group, "group" the end of s with a group open,
\* "literal" the end of s inside a literal, "" none.  stack holds the closing
\* delimiters waited for, innermost first; quote is the open literal's quote.
RECURSIVE structScan(_, _, _, _)
structScan(s, i, stack, quote) ==
    IF i > Len(s)
    THEN IF quote # "" THEN "literal" ELSE IF stack # <<>> THEN "group" ELSE ""
    ELSE LET c == charAt(s, i) IN
        IF quote # ""
        THEN IF c = quote THEN structScan(s, i + 1, stack, "")
             ELSE IF c = "\\" THEN structScan(s, i + 2, stack, quote)
             ELSE structScan(s, i + 1, stack, quote)
        ELSE IF c \in {"\"", "'"} THEN structScan(s, i + 1, stack, c)
        ELSE IF c \in {"(", "[", "{"} THEN structScan(s, i + 1, <<closerOf(c)>> \o stack, "")
        ELSE IF c \in {")", "]", "}"}
        THEN IF stack = <<>> THEN "top"
             ELSE IF c = Head(stack) THEN structScan(s, i + 1, Tail(stack), "")
             ELSE "wrong"
        ELSE structScan(s, i + 1, stack, "")

structuralErrors == {errParsingUnexpectedClosing, errParsingWrongClosing,
                     errParsingClosing, errParsingString}

\* C12: smartSplit ends with the error value of the first structural error
\* of its input and yields no node list: a closing delimiter outside every
\* group (errParsingUnexpectedClosing) or not matching the innermost open
\* group (errParsingWrongClosing), the end of the input with a group open
\* (errParsingClosing) or inside a literal, a trailing backslash included
\* (errParsingString); what stands inside a literal opens and closes nothing,
\* and an input without structural error ends with none of these errors.
C12_StructuralErrors ==
    splitRes.done =>
        /\ splitRes.err = CASE structScan(input, 1, <<>>, "") = "top" -> errParsingUnexpectedClosing
                            [] structScan(input, 1, <<>>, "") = "wrong" -> errParsingWrongClosing
                            [] structScan(input, 1, <<>>, "") = "group" -> errParsingClosing
                            [] structScan(input, 1, <<>>, "") = "literal" -> errParsingString
                            [] OTHER -> ""
        /\ splitRes.err # "" => (splitRes.first = <<>> /\ splitRes.second = <<>>)

\* C12 witness: a literal holding a closing parenthesis inside a group that
\* the input never closes.
C12_Witness ==
    /\ splitRes.done
    /\ input = "(')'"
    /\ splitRes.err = errParsingClosing

\* C13 as claimed: a line never ends the program abnormally; a line that is
\* not registered makes load return an error value.
C13_ErrorsAreReturned ==
    /\ pc # "panicked"
    /\ pc = "failed" => err # ""

\* the last segment of a display name: after the last "/" for a package,
\* after the last "." of the symbol for a symbol
leafName(name) ==
    IF IndexByte(name, " ") = -1
    THEN sliceFrom(name, LastIndexByte(name, "/") + 1)
    ELSE sliceFrom(symbolPart(name), LastIndexByte(symbolPart(name), ".") + 1)

\* C14 as claimed: after a file scanned without error every key of a package
\* table is lower case and every key of the search index is the lowercased
\* leaf name of the entries under it.
C14_CaseNormalised ==
    pc = "read" =>
    /\ \A p \in DOMAIN data : \A k \in DOMAIN data[p] : k = ToLower(k)
    /\ \A e \in allEntries(index) : e[1] = ToLower(leafName(index[e[1]][e[2]][1]))

\* what a method description should give, from its tokens
stripStar(t) == IF Len(t) > 0 /\ charAt(t, 1) = "*" THEN sliceFrom(t, 1) ELSE t

receiverOf(first) == cast(first[2])[2]

methodDefects(first) ==
    (IF Len(receiverOf(first)) = 0 THEN {errParsingReceiver} ELSE {})
    \cup (IF Len(receiverOf(first)) > 0 /\ stripStar(cast(receiverOf(first)[1])[1]) = ""
          THEN {errParsingReceiverName} ELSE {})
    \cup (IF Len(first) < 3 \/ cast(first[3])[1] = ""
          THEN {errParsingMethod, errParsingMethodName} ELSE {})

methodSymbol(first) ==
    stripStar(cast(receiverOf(first)[1])[1]) \o "." \o cast(first[3])[1]

\* C15 as claimed: a method line whose description tokenizes into at least
\* two tokens ends with the error of one of its defects (no receiver group,
\* no receiver type name once the leading * is stripped, no method name),
\* and without defect registers ReceiverType.MethodName, the * stripped.
C15_MethodLines ==
    (pc # "parse" /\ HasPrefix(lastLine.line, MethodPrefix)) =>
        LET parts == smartSplit(sliceFrom(lastLine.line, 7)) IN
        (parts.err = "" /\ Len(parts.first) >= 2) =>
            IF methodDefects(parts.first) # {}
            THEN pc = "failed" /\ err \in methodDefects(parts.first)
            ELSE /\ pc = "read"
                 /\ DOMAIN data["a"] = {"", ToLower(methodSymbol(parts.first))}

\* C16: under every interleaving of sendChar and the consumer, the runes the
\* consumer has received are the first runes of the input, in order and each
\* once, as many as sendChar has sent; what the consumer ends with, the two
\* node lists or the error, is what the forward cursor scan smartSplit of
\* this module gives for the input.
C16_ChannelRefinesScan ==
    pc = "chan" =>
        /\ cons.received = SubSeq(input, 1, Len(cons.received))
        /\ Len(cons.received) = prod.k - 1
        /\ splitRes.done =>
              /\ cons.pc \in {"done", "panicked"}
              /\ splitRes.err = smartSplit(input).err
              /\ splitRes.first = smartSplit(input).first
              /\ splitRes.second = smartSplit(input).second

\* C16 witness: the consumer returned the group of "(a)" and sendChar ended.
C16_Witness ==
    /\ pc = "chan"
    /\ input = "(a)"
    /\ cons.pc = "done"
    /\ prod.pc = "done"
    /\ splitRes.first = <<listNode(<<stringNode("a")>>)>>

\* C18 as claimed: in every execution sendChar ends (it has sent its last
\* rune and closed the channel) and the consumer ends.
C18_ProducerEnds ==
    <>(pc = "chan" => (prod.pc = "done" /\ cons.pc \in {"done", "panicked"}))

====
